---- MODULE Spec2Model ----
(***************************************************************************)
(* MemoryAtlas: the asset lifecycle state machine and synchronisation      *)
(* engine (scan -> transcribe -> enrich -> publish) over atlas.db.         *)
(*                                                                         *)
(* The store is a SQLite file used through one connection.  `store` is the *)
(* committed content of the file, `conn` is what the running batch sees    *)
(* through its connection (committed content plus its open transaction).   *)
(* commit() copies conn to store; closing the connection without commit,   *)
(* or a crash, throws the open transaction away.                           *)
(***************************************************************************)
EXTENDS Integers, Sequences, FiniteSets, TLC

VARIABLES
    store,      \* committed atlas.db: [asset : set of rows, log : seq of events]
    conn,       \* the connection's view: committed content + open transaction
    pc,         \* position of the running batch ("idle" when none runs)
    opts,       \* arguments of the running (or last) batch: [cmd, force, limit]
    rows,       \* the rows (scan: the candidates) the batch fetched, in order
    idx,        \* 1-based index of the row the loop is at
    counts,     \* the batch's counts dict
    results,    \* per-record outcomes of the running (or last) batch, in order
    ret,        \* how the last batch ended: "none", "returned", "raised", "crashed"
    tfiles,     \* transcript artifacts on disk: id -> "none" | "empty" | "text"
    notes,      \* vault notes on disk: set of [name, content]
    runs,       \* number of batches started so far
    nfaults,    \* number of store/file faults injected so far
    raw,        \* SpecParse: the text handed to parse_enrichment_response
    parsed,     \* SpecParse: what parse_enrichment_response returned for it
    stamps,     \* SpecStamps: id -> the row's scanned_at and updated_at
    now         \* SpecStamps: the clock strftime('now') reads, in seconds

vars == <<store, conn, pc, opts, rows, idx, counts, results, ret,
          tfiles, notes, runs, nfaults, raw, parsed, stamps, now>>

\* What the batches of Spec leave alone: the variables of the specifications
\* that study one function or one statement at a time.
aside == <<raw, parsed, stamps, now>>

-----------------------------------------------------------------------------
(* Bounds of the model.                                                    *)

MaxRuns == 3        \* batches started in one behaviour
MaxSnapshot == 2    \* rows in one snapshot of the source database
MaxFaults == 1      \* store/file faults injected in one behaviour

-----------------------------------------------------------------------------
(* Values.                                                                 *)

NULL == "NULL"

Ids == {"AAAA-1", "BBBB-2"}

\* The ids of SpecVault: a third recording whose ZUNIQUEID has the first
\* segment of AAAA-1's.
VaultIds == Ids \cup {"AAAA-3"}

\* transcriber.py:43  "AND duration_sec > 5"
MinDuration == 5

WhisperModel == "mlx-community/whisper-turbo"

-----------------------------------------------------------------------------
(* Source adapter: apple.py                                                *)

\* Values of the source columns.
ZTitles == {"Morning thoughts", "Call Bob!", NULL}
ZDurations == {5, 30, 600}
ZDates == {0, 86400}

\* File name and audio digest of a recording: the original file, the file
\* after the recording was edited, or no file name.
ZFiles(id) ==
    { [path |-> id \o ".m4a", digest |-> "d1"],
      [path |-> id \o ".qta", digest |-> "d2"],
      [path |-> "", digest |-> "d1"] }

\* apple_date_to_iso on the model's timestamps (seconds since 2001-01-01).
apple_date_to_iso(ts) ==
    CASE ts = 0     -> "2001-01-01T00:00:00Z"
      [] ts = 86400 -> "2001-01-02T00:00:00Z"

\* One row of ZCLOUDRECORDING as read_voice_memos selects it.
ZRow(id, path, dur, date, title, digest) ==
    [ZUNIQUEID |-> id, ZPATH |-> path, ZDURATION |-> dur, ZDATE |-> date,
     ZENCRYPTEDTITLE |-> title, ZAUDIODIGEST |-> digest]

\* Every source row over the model's values.
AllZRows ==
    UNION { { ZRow(id, f.path, dur, date, title, f.digest) :
                f \in ZFiles(id), dur \in ZDurations,
                date \in ZDates, title \in ZTitles } : id \in Ids }

\* The rows the source database holds over time in the model: two recordings,
\* the first one renamed, the second one trimmed to the transcription
\* threshold, and a row without a file name.
ZRows ==
    { ZRow("AAAA-1", "AAAA-1.m4a", 30, 0, "Morning thoughts", "d1"),
      ZRow("AAAA-1", "AAAA-1.m4a", 30, 0, "Call Bob!", "d1"),
      ZRow("BBBB-2", "BBBB-2.m4a", 600, 86400, "Morning thoughts", "d1"),
      ZRow("BBBB-2", "BBBB-2.m4a", 5, 86400, "Morning thoughts", "d1"),
      ZRow("BBBB-2", "", 600, 86400, "Morning thoughts", "d1") }

\* ORDER BY ZDATE ASC (apple.py:38): the snapshots are the sequences of at most
\* MaxSnapshot source rows in ascending ZDATE order.  ZUNIQUEID is not a key of
\* the source table, so a snapshot may list an id more than once.
Snapshots ==
    { s \in UNION { [1..n -> ZRows] : n \in 0..MaxSnapshot } :
        \A i \in 1..Len(s) : \A j \in 1..Len(s) :
            i < j => s[i].ZDATE <= s[j].ZDATE }

\* Path(filename).suffix.lower().lstrip(".") on the model's file names.
FileExt(path) ==
    CASE path \in {id \o ".m4a" : id \in VaultIds} -> "m4a"
      [] path \in {id \o ".qta" : id \in VaultIds} -> "qta"
      [] path = "" -> ""

\* Asset(...) as read_voice_memos builds it from one source row.
AssetOf(z) ==
    [id |-> z.ZUNIQUEID,
     source_type |-> "voice_memo",
     source_path |-> "Recordings/" \o z.ZPATH,
     filename |-> z.ZPATH,
     title |-> z.ZENCRYPTEDTITLE,
     duration_sec |-> z.ZDURATION,
     recorded_at |-> apple_date_to_iso(z.ZDATE),
     file_format |-> FileExt(z.ZPATH),
     file_size_bytes |-> NULL,
     apple_audio_digest |-> z.ZAUDIODIGEST]

RECURSIVE read_voice_memos(_)
\* read_voice_memos: rows without a file name are dropped, the rest converted.
read_voice_memos(snap) ==
    IF snap = <<>> THEN <<>>
    ELSE IF Head(snap).ZPATH = "" THEN read_voice_memos(Tail(snap))
         ELSE <<AssetOf(Head(snap))>> \o read_voice_memos(Tail(snap))

\* Every candidate read_voice_memos can hand to the store.
Candidates == { AssetOf(z) : z \in { y \in AllZRows : y.ZPATH # "" } }

-----------------------------------------------------------------------------
(* Record store: db.py                                                     *)

\* The row INSERT creates (db.py:119-129): the ten listed columns from the
\* candidate, every other column at its schema default.
NewRow(a) ==
    [id |-> a.id,
     source_type |-> a.source_type,
     source_path |-> a.source_path,
     filename |-> a.filename,
     title |-> a.title,
     duration_sec |-> a.duration_sec,
     recorded_at |-> a.recorded_at,
     file_format |-> a.file_format,
     file_size_bytes |-> a.file_size_bytes,
     apple_audio_digest |-> a.apple_audio_digest,
     transcript_status |-> "pending",
     transcript_model |-> NULL,
     transcript_lang |-> NULL,
     transcript_at |-> NULL,
     transcript_path |-> NULL,
     summary |-> NULL,
     topics |-> NULL,
     people |-> NULL,
     sentiment |-> NULL,
     enriched_at |-> NULL,
     note_path |-> NULL,
     published_at |-> NULL,
     note_hash |-> NULL]

\* SELECT ... FROM asset WHERE id = ?
RowsWithId(tbl, id) == { r \in tbl : r.id = id }

\* UpsertSet with duration_sec left out of the SET list.
UpsertSetNoDuration(r, a) ==
    [r EXCEPT !.source_path = a.source_path,
              !.filename = a.filename,
              !.title = a.title,
              !.recorded_at = a.recorded_at,
              !.file_format = a.file_format,
              !.file_size_bytes = a.file_size_bytes,
              !.apple_audio_digest = a.apple_audio_digest]

\* UpsertSet written as a replacement of the row: the stage columns fall back
\* to their defaults.
UpsertSetReplace(r, a) == NewRow(a)

\* The SET list of upsert_asset's UPDATE (db.py:137-147).
UpsertSet(r, a) ==
    [r EXCEPT !.source_path = a.source_path,
              !.filename = a.filename,
              !.title = a.title,
              !.duration_sec = a.duration_sec,
              !.recorded_at = a.recorded_at,
              !.file_format = a.file_format,
              !.file_size_bytes = a.file_size_bytes,
              !.apple_audio_digest = a.apple_audio_digest]

\* The skip test looking at the title alone.
UnchangedTitle(existing, a) == existing.title = a.title

\* The skip test comparing the audio digest as well.
UnchangedWithDigest(existing, a) ==
    /\ existing.title = a.title
    /\ existing.duration_sec = a.duration_sec
    /\ existing.recorded_at = a.recorded_at
    /\ existing.apple_audio_digest = a.apple_audio_digest

\* The skip test of upsert_asset (db.py:132-135).
Unchanged(existing, a) ==
    /\ existing.title = a.title
    /\ existing.duration_sec = a.duration_sec
    /\ existing.recorded_at = a.recorded_at

\* upsert_asset looking the row up by title instead of by id.
upsert_asset_ByTitle(tbl, a) ==
    IF { r \in tbl : r.title = a.title } = {}
    THEN [result |-> "insert", asset |-> tbl \cup {NewRow(a)}]
    ELSE [result |-> "skip", asset |-> tbl]

\* AtlasDB.upsert_asset: the result string and the asset table afterwards.
upsert_asset(tbl, a) ==
    IF RowsWithId(tbl, a.id) = {}
    THEN [result |-> "insert", asset |-> tbl \cup {NewRow(a)}]
    ELSE LET existing == CHOOSE r \in RowsWithId(tbl, a.id) : TRUE
         IN  IF Unchanged(existing, a)
             THEN [result |-> "skip", asset |-> tbl]
             ELSE [result |-> "update",
                   asset |-> { IF r.id = a.id THEN UpsertSet(r, a) ELSE r :
                                 r \in tbl }]

\* AtlasDB.log_action: one more row of action_log.
Event(command, action, asset_id) ==
    [command |-> command, action |-> action, asset_id |-> asset_id]

\* log_action written as INSERT OR REPLACE on a fixed key: the new event takes
\* the place of the events before it.
log_action_Replace(db, command, action, asset_id) ==
    [db EXCEPT !.log = <<Event(command, action, asset_id)>>]

log_action(db, command, action, asset_id) ==
    [db EXCEPT !.log = Append(@, Event(command, action, asset_id))]

-----------------------------------------------------------------------------
RECURSIVE ScanAll(_, _)
\* The upserts of one scan over the candidates `assets`, none of them raising
\* (scanner.py:23-27): the table afterwards and the result of every upsert.
ScanAll(tbl, assets) ==
    IF assets = <<>> THEN [asset |-> tbl, results |-> <<>>]
    ELSE LET up == upsert_asset(tbl, Head(assets))
             rest == ScanAll(up.asset, Tail(assets))
         IN  [asset |-> rest.asset, results |-> <<up.result>> \o rest.results]

-----------------------------------------------------------------------------
(* Batches                                                                 *)

NoCounts ==
    [insert |-> 0, update |-> 0, skip |-> 0, error |-> 0,
     done |-> 0, failed |-> 0, skipped |-> 0,
     created |-> 0, updated |-> 0]

Bump(c, key) == [c EXCEPT ![key] = @ + 1]

Opts(cmd, force, limit) == [cmd |-> cmd, force |-> force, limit |-> limit]

CanStart == pc = "idle" /\ runs < MaxRuns

CanFault == nfaults < MaxFaults

\* A batch starts on a fresh connection: no open transaction.
Begin(o) ==
    /\ opts' = o
    /\ idx' = 1
    /\ counts' = NoCounts
    /\ results' = <<>>
    /\ runs' = runs + 1

\* The batch function is left and the caller's `with db:` closes the connection
\* (cli.py:55-59, db.py:92-101): whatever the open transaction holds is rolled
\* back, so the connection's view falls back to the committed content `db`.
End(how, db) ==
    /\ pc' = "exit"
    /\ ret' = how
    /\ store' = db
    /\ conn' = db

\* An exception leaves the batch function.
Raise == End("raised", store)

\* Closing the connection as if it committed the open transaction.
RollbackKeeps(committed, open) == open

\* sqlite3's close() on a connection with an open transaction (db.py:92-95):
\* what the transaction wrote is dropped, the file holds the committed content.
Rollback(committed, open) == committed

-----------------------------------------------------------------------------
(* scanner.scan                                                            *)

\* scan, lines 16-21: log the start, read the source.  An unreadable source
\* makes read_voice_memos raise; nothing catches it, and the connection is
\* closed with the start event still uncommitted.
ScanStart ==
    /\ CanStart
    /\ Begin(Opts("scan", FALSE, <<>>))
    /\ \/ /\ \E snap \in Snapshots : rows' = read_voice_memos(snap)
          /\ conn' = log_action(conn, "scan", "start", NULL)
          /\ pc' = "s_loop"
          /\ ret' = "none"
          /\ UNCHANGED <<store, nfaults>>
       \/ /\ CanFault
          /\ nfaults' = nfaults + 1
          /\ rows' = <<>>
          /\ End("raised",
                 Rollback(store, log_action(conn, "scan", "start", NULL)))
    /\ UNCHANGED <<tfiles, notes>>
    /\ UNCHANGED aside

\* scan, lines 23-44: one iteration of the loop.  upsert_asset raising (a
\* store error) is caught: the error is counted and logged.  So is write_jsonl
\* raising after the upsert and its event were written: the record is then
\* counted twice, under its result and under error.
ScanRecord ==
    /\ pc = "s_loop"
    /\ idx <= Len(rows)
    /\ LET asset == rows[idx]
           up == upsert_asset(conn.asset, asset)
       IN  \/ /\ counts' = Bump(counts, up.result)
              /\ results' = Append(results, [id |-> asset.id, res |-> up.result])
              /\ conn' = IF up.result # "skip"
                         THEN log_action([conn EXCEPT !.asset = up.asset],
                                         "scan", up.result, asset.id)
                         ELSE conn
              /\ UNCHANGED nfaults
           \/ /\ CanFault
              /\ nfaults' = nfaults + 1
              /\ counts' = Bump(counts, "error")
              /\ results' = Append(results, [id |-> asset.id, res |-> "error"])
              /\ conn' = log_action(conn, "scan", "error", asset.id)
           \/ /\ CanFault
              /\ up.result # "skip"
              /\ nfaults' = nfaults + 1
              /\ counts' = Bump(Bump(counts, up.result), "error")
              /\ results' = Append(results, [id |-> asset.id, res |-> "error"])
              /\ conn' = log_action(
                    log_action([conn EXCEPT !.asset = up.asset],
                               "scan", up.result, asset.id),
                    "scan", "error", asset.id)
    /\ idx' = idx + 1
    /\ UNCHANGED <<store, pc, opts, rows, ret, tfiles, notes, runs>>
    /\ UNCHANGED aside

\* scan, line 46: the single commit after the loop.
ScanCommit ==
    /\ pc = "s_loop"
    /\ idx > Len(rows)
    /\ store' = conn
    /\ pc' = "s_complete"
    /\ UNCHANGED <<conn, opts, rows, idx, counts, results, ret,
                   tfiles, notes, runs, nfaults>>
    /\ UNCHANGED aside

\* scan, lines 47-50: log the completion, commit, return the counts.
ScanComplete ==
    /\ pc = "s_complete"
    /\ End("returned", log_action(conn, "scan", "complete", NULL))
    /\ UNCHANGED <<opts, rows, idx, counts, results, tfiles, notes, runs, nfaults>>
    /\ UNCHANGED aside

-----------------------------------------------------------------------------
(* transcriber.transcribe_batch                                            *)

\* The values of `limit` in the model: <<>> is None (no --limit), <<n>> is n.
Limits == {<<>>, <<0>>, <<1>>}

\* ByDuration with the order turned round: longest first.
ByDurationDesc(S) ==
    { s \in [1..Cardinality(S) -> S] :
        /\ \A i \in 1..Len(s) : \A j \in 1..Len(s) :
              /\ i # j => s[i] # s[j]
              /\ i < j => s[i].duration_sec >= s[j].duration_sec }

\* The orders in which SELECT ... ORDER BY duration_sec ASC can return the rows
\* of S: every arrangement with ascending durations (SQLite leaves the order of
\* rows with equal durations open).
ByDuration(S) ==
    { s \in [1..Cardinality(S) -> S] :
        /\ \A i \in 1..Len(s) : \A j \in 1..Len(s) :
              /\ i # j => s[i] # s[j]
              /\ i < j => s[i].duration_sec <= s[j].duration_sec }

\* `if limit: query += " LIMIT n"`: None and 0 add no LIMIT clause.
ApplyLimit(s, limit) ==
    IF limit = <<>> \/ limit[1] = 0 THEN s
    ELSE SubSeq(s, 1, IF limit[1] < Len(s) THEN limit[1] ELSE Len(s))

\* The transcribe selection without its status test.
TranscribeEligibleAnyStatus(r) == r.duration_sec > MinDuration

\* The transcribe selection fetching skipped records as well.
TranscribeEligibleWithSkipped(r) ==
    /\ r.transcript_status \in {"pending", "failed", "skipped"}
    /\ r.duration_sec > MinDuration

\* The WHERE clause of the transcribe selection (transcriber.py:40-45).
TranscribeEligible(r) ==
    /\ r.transcript_status \in {"pending", "failed"}
    /\ r.duration_sec > MinDuration

\* UPDATE asset SET transcript_status = ? WHERE id = ?
SetStatus(tbl, id, status) ==
    LET Set(r) == [r EXCEPT !.transcript_status = status]
    IN  { IF r.id = id THEN Set(r) ELSE r : r \in tbl }

\* The 'done' UPDATE setting the status alone.
SetDoneStatusOnly(tbl, id, lang) == SetStatus(tbl, id, "done")

\* The 'done' UPDATE (transcriber.py:141-149).
SetDone(tbl, id, lang) ==
    LET Set(r) == [r EXCEPT !.transcript_status = "done",
                            !.transcript_model = WhisperModel,
                            !.transcript_lang = lang,
                            !.transcript_at = "now",
                            !.transcript_path = "transcripts/" \o id \o ".txt"]
    IN  { IF r.id = id THEN Set(r) ELSE r : r \in tbl }

\* transcribe_batch, lines 40-67: select, return at once when nothing is
\* selected.
TranscribeStart ==
    /\ CanStart
    /\ \E limit \in Limits :
         /\ Begin(Opts("transcribe", FALSE, limit))
         /\ \E s \in ByDuration({r \in conn.asset : TranscribeEligible(r)}) :
              rows' = ApplyLimit(s, limit)
    /\ IF rows' = <<>>
       THEN End("returned", store)
       ELSE /\ pc' = "t_loop"
            /\ ret' = "none"
            /\ UNCHANGED <<store, conn>>
    /\ UNCHANGED <<tfiles, notes, nfaults>>
    /\ UNCHANGED aside

\* The 'skipped' UPDATE of a record without source file, made as 'failed'.
SkipMissingAsFailed(tbl, id) == SetStatus(tbl, id, "failed")

\* The 'skipped' UPDATE of a record without source file (transcriber.py:90-93).
SkipMissing(tbl, id) == SetStatus(tbl, id, "skipped")

\* transcribe_batch, lines 70-88: the next row is taken and its source file is
\* looked for; the file is there or it is not.
TranscribeCheck ==
    /\ pc = "t_loop"
    /\ idx <= Len(rows)
    /\ \E exists \in BOOLEAN : pc' = IF exists THEN "t_present" ELSE "t_missing"
    /\ UNCHANGED <<store, conn, opts, rows, idx, counts, results, ret,
                   tfiles, notes, runs, nfaults>>
    /\ UNCHANGED aside

\* transcribe_batch, lines 88-97: the source file is missing: the 'skipped'
\* commit, the counter, and on to the next row.  The write is outside the try:
\* a store error there leaves the batch function.
TranscribeSkip ==
    /\ pc = "t_missing"
    /\ LET id == rows[idx].id
       IN  \/ /\ LET db == [conn EXCEPT !.asset = SkipMissing(@, id)]
                 IN  store' = db /\ conn' = db
              /\ counts' = Bump(counts, "skipped")
              /\ results' = Append(results, [id |-> id, res |-> "skipped"])
              /\ idx' = idx + 1
              /\ pc' = "t_loop"
              /\ UNCHANGED <<ret, nfaults>>
           \/ /\ CanFault
              /\ nfaults' = nfaults + 1
              /\ Raise
              /\ UNCHANGED <<counts, results, idx>>
    /\ UNCHANGED <<opts, rows, tfiles, notes, runs>>
    /\ UNCHANGED aside

\* transcribe_batch, lines 99-104: the source file is there: the 'running'
\* commit.  The write is outside the try: a store error there leaves the batch
\* function.
TranscribeRunning ==
    /\ pc = "t_present"
    /\ LET id == rows[idx].id
       IN  \/ /\ LET db == [conn EXCEPT !.asset = SetStatus(@, id, "running")]
                 IN  store' = db /\ conn' = db
              /\ pc' = "t_call"
              /\ UNCHANGED <<ret, nfaults>>
           \/ /\ CanFault
              /\ nfaults' = nfaults + 1
              /\ Raise
    /\ UNCHANGED <<opts, rows, idx, counts, results, tfiles, notes, runs>>
    /\ UNCHANGED aside

\* transcribe_batch, lines 106-137: the collaborator call and the two artifact
\* files.  The call raising, or a file write raising, goes to the except branch.
TranscribeCall ==
    /\ pc = "t_call"
    /\ \/ /\ \E text \in {"empty", "text"} :
               tfiles' = [tfiles EXCEPT ![rows[idx].id] = text]
          /\ pc' = "t_written"
       \/ /\ pc' = "t_except"
          /\ UNCHANGED tfiles
    /\ UNCHANGED <<store, conn, opts, rows, idx, counts, results, ret,
                   notes, runs, nfaults>>
    /\ UNCHANGED aside

\* transcribe_batch, lines 139-150: the 'done' UPDATE and its commit.
TranscribeDone ==
    /\ pc = "t_written"
    /\ \/ /\ LET db == [conn EXCEPT !.asset = SetDone(@, rows[idx].id, "en")]
             IN  store' = db /\ conn' = db
          /\ pc' = "t_log"
          /\ UNCHANGED nfaults
       \/ /\ CanFault
          /\ nfaults' = nfaults + 1
          /\ pc' = "t_except"
          /\ UNCHANGED <<store, conn>>
    /\ UNCHANGED <<opts, rows, idx, counts, results, ret, tfiles, notes, runs>>
    /\ UNCHANGED aside

\* transcribe_batch, lines 152-168: the audit event in a transaction of its own,
\* the counters, the progress output.  All of it is still inside the try: a
\* store error at the log, or an output error at the print after the counter
\* was bumped, goes to the except branch.
TranscribeLog ==
    /\ pc = "t_log"
    /\ LET id == rows[idx].id
       IN  \/ /\ LET db == log_action(conn, "transcribe", "done", id)
                 IN  store' = db /\ conn' = db
              /\ counts' = Bump(counts, "done")
              /\ results' = Append(results, [id |-> id, res |-> "done"])
              /\ idx' = idx + 1
              /\ pc' = "t_loop"
              /\ UNCHANGED nfaults
           \/ /\ CanFault
              /\ nfaults' = nfaults + 1
              /\ pc' = "t_except"
              /\ UNCHANGED <<store, conn, counts, results, idx>>
           \/ /\ CanFault
              /\ nfaults' = nfaults + 1
              /\ LET db == log_action(conn, "transcribe", "done", id)
                 IN  store' = db /\ conn' = db
              /\ counts' = Bump(counts, "done")
              /\ results' = Append(results, [id |-> id, res |-> "done"])
              /\ pc' = "t_except"
              /\ UNCHANGED idx
    /\ UNCHANGED <<opts, rows, ret, tfiles, notes, runs>>
    /\ UNCHANGED aside

\* transcribe_batch, lines 170-175: the except branch marks the record failed
\* and commits.  A store error here leaves the batch function.
TranscribeExcept ==
    /\ pc = "t_except"
    /\ \/ /\ LET db == [conn EXCEPT !.asset = SetStatus(@, rows[idx].id, "failed")]
             IN  store' = db /\ conn' = db
          /\ pc' = "t_exlog"
          /\ UNCHANGED <<ret, nfaults>>
       \/ /\ CanFault
          /\ nfaults' = nfaults + 1
          /\ Raise
    /\ UNCHANGED <<opts, rows, idx, counts, results, tfiles, notes, runs>>
    /\ UNCHANGED aside

\* transcribe_batch, lines 176-181: the 'failed' audit event in a transaction of
\* its own, then the counter.
TranscribeExceptLog ==
    /\ pc = "t_exlog"
    /\ LET id == rows[idx].id
       IN  \/ /\ LET db == log_action(conn, "transcribe", "failed", id)
                 IN  store' = db /\ conn' = db
              /\ counts' = Bump(counts, "failed")
              /\ results' = Append(results, [id |-> id, res |-> "failed"])
              /\ idx' = idx + 1
              /\ pc' = "t_loop"
              /\ UNCHANGED <<ret, nfaults>>
           \/ /\ CanFault
              /\ nfaults' = nfaults + 1
              /\ Raise
              /\ UNCHANGED <<counts, results, idx>>
    /\ UNCHANGED <<opts, rows, tfiles, notes, runs>>
    /\ UNCHANGED aside

\* transcribe_batch, lines 183-191: after the last row the counts are returned.
TranscribeReturn ==
    /\ pc = "t_loop"
    /\ idx > Len(rows)
    /\ End("returned", store)
    /\ UNCHANGED <<opts, rows, idx, counts, results, tfiles, notes, runs, nfaults>>
    /\ UNCHANGED aside

-----------------------------------------------------------------------------
(* enricher                                                                *)

RequiredKeys == {"summary", "topics", "people", "sentiment"}

\* JSON values of a response's fields: a string, null, an array, an object.
JsonNull == "json:null"
JsonList == "json:list"
JsonObject == "json:object"

\* A response text, as the pieces that matter to the parser: the two braces, a
\* run of any other characters ("x"), a key with its colon ("k:"), and the
\* member lists a reply to the enrichment prompt can hold: all four keys with
\* string values ("M4"), the same without "people" ("M3"), all four with
\* "summary": null ("Mnull"), all four with "topics": [...] ("Mlist").
MemberTokens == {"M4", "M3", "Mnull", "Mlist"}
Tokens == {"{", "}", "x", "k:"} \cup MemberTokens

\* The longest response text of SpecParse, in tokens.
MaxText == 5

Texts == UNION { [1..n -> Tokens] : n \in 0..MaxText }

GoodData == [k \in RequiredKeys |-> "s:" \o k]

EmptyDict == [k \in {} |-> ""]

\* The dict json.loads builds from a member list.
Members(m) ==
    CASE m = "M4" -> GoodData
      [] m = "M3" -> [k \in RequiredKeys \ {"people"} |-> "s:" \o k]
      [] m = "Mnull" -> [GoodData EXCEPT !["summary"] = JsonNull]
      [] m = "Mlist" -> [GoodData EXCEPT !["topics"] = JsonList]

RECURSIVE IsJsonObject(_)
\* json.loads does not raise JSONDecodeError on t: t is "{", then nothing, one
\* member list, or a key with an object as its value, then "}".
IsJsonObject(t) ==
    /\ Len(t) >= 2
    /\ t[1] = "{"
    /\ t[Len(t)] = "}"
    /\ LET body == SubSeq(t, 2, Len(t) - 1)
       IN  \/ body = <<>>
           \/ Len(body) = 1 /\ body[1] \in MemberTokens
           \/ Len(body) >= 3 /\ body[1] = "k:" /\ IsJsonObject(Tail(body))

\* json.loads on a text it accepts: the dict of the outermost object.
json_loads(t) ==
    IF Len(t) = 2 THEN EmptyDict
    ELSE IF Len(t) = 3 THEN Members(t[2])
    ELSE [k \in {"data"} |-> JsonObject]

\* str.find / str.rfind as 1-based positions, 0 when the character is not there
\* (Python: -1; `rfind(...) + 1` is then 0).
find(s, ch) ==
    IF \E i \in DOMAIN s : s[i] = ch
    THEN CHOOSE i \in DOMAIN s : s[i] = ch /\ \A j \in 1..(i - 1) : s[j] # ch
    ELSE 0

rfind(s, ch) ==
    IF \E i \in DOMAIN s : s[i] = ch
    THEN CHOOSE i \in DOMAIN s : s[i] = ch /\ \A j \in (i + 1)..Len(s) : s[j] # ch
    ELSE 0

\* What call_ollama returns: None, or the text of the reply.
NoResponse == [text |-> FALSE, body |-> <<>>]
Text(body) == [text |-> TRUE, body |-> body]

\* The replies of the collaborator in the batches: none; prose; an object
\* without "people"; a complete object inside prose; a complete object whose
\* summary is null; a complete object whose topics are an array.
Responses ==
    { NoResponse,
      Text(<<"x">>),
      Text(<<"{", "M3", "}">>),
      Text(<<"x", "{", "M4", "}", "x">>),
      Text(<<"{", "Mnull", "}">>),
      Text(<<"{", "Mlist", "}">>) }

\* The return value None of parse_enrichment_response.
ParseNone == [none |-> TRUE, data |-> EmptyDict]

\* parse_enrichment_response taking the first "}" for the end of the object.
parse_enrichment_response_FirstClose(text) ==
    LET start == find(text, "{")
        end == find(text, "}")
    IN  IF start = 0 \/ end = 0 THEN ParseNone
        ELSE LET json_str == SubSeq(text, start, end)
             IN  IF ~IsJsonObject(json_str) THEN ParseNone
                 ELSE IF ~(RequiredKeys \subseteq DOMAIN json_loads(json_str))
                      THEN ParseNone
                      ELSE [none |-> FALSE, data |-> json_loads(json_str)]

\* parse_enrichment_response: the slice from the first "{" to the last "}" is
\* loaded; None when a brace is missing, when json.loads raises (an empty slice
\* included: the last "}" before the first "{"), or when one of the four keys
\* is not a key of the object.  The values are not looked at.
parse_enrichment_response(text) ==
    LET start == find(text, "{")
        end == rfind(text, "}")
    IN  IF start = 0 \/ end = 0 THEN ParseNone
        ELSE LET json_str == SubSeq(text, start, end)
             IN  IF ~IsJsonObject(json_str) THEN ParseNone
                 ELSE IF ~(RequiredKeys \subseteq DOMAIN json_loads(json_str))
                      THEN ParseNone
                      ELSE [none |-> FALSE, data |-> json_loads(json_str)]

\* sqlite3 binds str and None; a list (or dict) parameter makes execute raise.
Bindable(v) == v # JsonList

\* The value sqlite3 stores for a bound parameter: None becomes NULL.
Bound(v) == IF v = JsonNull THEN NULL ELSE v

\* The UPDATE of enrich_asset also clearing note_hash (to have the note
\* rewritten).
SetEnrichedClearsHash(tbl, id, data) ==
    LET Set(r) == [r EXCEPT !.summary = Bound(data["summary"]),
                            !.topics = Bound(data["topics"]),
                            !.people = Bound(data["people"]),
                            !.sentiment = Bound(data["sentiment"]),
                            !.enriched_at = "now",
                            !.note_hash = NULL]
    IN  { IF r.id = id THEN Set(r) ELSE r : r \in tbl }

\* The UPDATE of enrich_asset (enricher.py:145-160).
SetEnriched(tbl, id, data) ==
    LET Set(r) == [r EXCEPT !.summary = Bound(data["summary"]),
                            !.topics = Bound(data["topics"]),
                            !.people = Bound(data["people"]),
                            !.sentiment = Bound(data["sentiment"]),
                            !.enriched_at = "now"]
    IN  { IF r.id = id THEN Set(r) ELSE r : r \in tbl }

\* The enrich selection without its status test.
EnrichEligibleAnyStatus(r) ==
    /\ r.summary = NULL
    /\ r.transcript_path # NULL

\* The WHERE clause of the enrich selection (enricher.py:183-185).
EnrichEligible(r) ==
    /\ r.transcript_status = "done"
    /\ r.summary = NULL
    /\ r.transcript_path # NULL

\* SELECT id, title, transcript_path, duration_sec
EnrichColumns(r) ==
    [id |-> r.id, title |-> r.title, transcript_path |-> r.transcript_path,
     duration_sec |-> r.duration_sec]

\* enrich_asset up to the parse: "ok" with the parsed data, or "failed".
\* `file` is what the transcript file holds, `response` what the collaborator
\* returns.
EnrichOutcome(file, response) ==
    IF file # "text" THEN "failed"
    ELSE IF ~response.text THEN "failed"
    ELSE IF parse_enrichment_response(response.body).none THEN "failed"
    ELSE "ok"

\* enrich_batch, lines 180-196: select, return at once when nothing is selected.
EnrichStart ==
    /\ CanStart
    /\ \E limit \in Limits :
         /\ Begin(Opts("enrich", FALSE, limit))
         /\ \E s \in ByDuration({EnrichColumns(r) : r \in {x \in conn.asset : EnrichEligible(x)}}) :
              rows' = ApplyLimit(s, limit)
    /\ IF rows' = <<>>
       THEN End("returned", store)
       ELSE /\ pc' = "e_loop"
            /\ ret' = "none"
            /\ UNCHANGED <<store, conn>>
    /\ UNCHANGED <<tfiles, notes, nfaults>>
    /\ UNCHANGED aside

\* A failed enrichment marking the record failed, as the transcriber does.
EnrichFailedMarks(db, id) == [db EXCEPT !.asset = SetStatus(@, id, "failed")]

\* enrich_asset's failure returns (enricher.py:108-141) come before any write:
\* the store is left as it is.
EnrichFailed(db, id) == db

\* enrich_batch, lines 214-245, with enrich_asset inlined: one iteration.  A
\* failure up to the parse is returned and counted; the UPDATE and its commit
\* are not guarded, so an unbindable value or a store error leaves enrich_asset
\* and enrich_batch as an exception.
EnrichRecord ==
    /\ pc = "e_loop"
    /\ idx <= Len(rows)
    /\ LET id == rows[idx].id
       IN  \E response \in Responses :
           \/ /\ EnrichOutcome(tfiles[id], response) = "failed"
              /\ conn' = EnrichFailed(conn, id)
              /\ counts' = Bump(counts, "failed")
              /\ results' = Append(results, [id |-> id, res |-> "failed"])
              /\ idx' = idx + 1
              /\ UNCHANGED <<store, pc, ret, nfaults>>
           \/ /\ EnrichOutcome(tfiles[id], response) = "ok"
              /\ LET data == parse_enrichment_response(response.body).data
                 IN  IF \A k \in RequiredKeys : Bindable(data[k])
                     THEN /\ LET db == [conn EXCEPT !.asset = SetEnriched(@, id, data)]
                             IN  store' = db /\ conn' = db
                          /\ counts' = Bump(counts, "done")
                          /\ results' = Append(results, [id |-> id, res |-> "done"])
                          /\ idx' = idx + 1
                          /\ UNCHANGED <<pc, ret>>
                     ELSE /\ Raise
                          /\ UNCHANGED <<counts, results, idx>>
              /\ UNCHANGED nfaults
           \/ /\ EnrichOutcome(tfiles[id], response) = "ok"
              /\ CanFault
              /\ nfaults' = nfaults + 1
              /\ Raise
              /\ UNCHANGED <<counts, results, idx>>
    /\ UNCHANGED <<opts, rows, tfiles, notes, runs>>
    /\ UNCHANGED aside

\* enrich_batch, lines 247-255: after the last row the counts are returned.
EnrichReturn ==
    /\ pc = "e_loop"
    /\ idx > Len(rows)
    /\ End("returned", store)
    /\ UNCHANGED <<opts, rows, idx, counts, results, tfiles, notes, runs, nfaults>>
    /\ UNCHANGED aside

-----------------------------------------------------------------------------
(* models.Asset properties and publisher                                   *)

\* Asset.short_id: the part of the id before the first "-".
short_id(id) ==
    CASE id = "AAAA-1" -> "AAAA"
      [] id = "AAAA-3" -> "AAAA"
      [] id = "BBBB-2" -> "BBBB"

\* Asset.recorded_date: the first ten characters of recorded_at.
recorded_date(recorded_at) ==
    CASE recorded_at = "2001-01-01T00:00:00Z" -> "2001-01-01"
      [] recorded_at = "2001-01-02T00:00:00Z" -> "2001-01-02"

\* Asset.slug_title on the model's titles.
slug_title(title) ==
    CASE title = "Morning thoughts" -> "morning-thoughts"
      [] title = "Call Bob!" -> "call-bob"
      [] title = NULL -> "untitled"

\* Asset.note_filename
note_filename(r) ==
    recorded_date(r.recorded_at) \o "_" \o slug_title(r.title) \o "_"
        \o short_id(r.id) \o ".md"

\* generate_note_content: the text of the note, as the fields it is made of.
generate_note_content(r) ==
    "uuid: " \o r.id
    \o "|type: " \o r.source_type
    \o "|title: " \o (IF r.title = NULL THEN "Untitled" ELSE r.title)
    \o "|recorded: " \o r.recorded_at
    \o "|duration_sec: " \o ToString(r.duration_sec)
    \o "|format: " \o r.file_format
    \o "|transcribed: " \o (IF r.transcript_status = "done" THEN "true" ELSE "false")
    \o "|enriched: " \o (IF r.summary # NULL THEN "true" ELSE "false")
    \o "|transcript: " \o (IF r.transcript_status = "done" /\ r.transcript_path # NULL
                           THEN r.transcript_path ELSE "pending")
    \o (IF r.summary # NULL
        THEN "|summary: " \o r.summary
             \o (IF r.topics # NULL THEN "|topics: " \o r.topics ELSE "")
             \o (IF r.people # NULL THEN "|people: " \o r.people ELSE "")
             \o (IF r.sentiment # NULL THEN "|sentiment: " \o r.sentiment ELSE "")
        ELSE "")

\* hashlib.sha256(content).hexdigest()[:16], taken as free of collisions.
content_hash(content) == "sha256(" \o content \o ")"

NoteExists(files, name) == \E n \in files : n.name = name

\* is_new taken after the note was written: the file is always there.
is_new_AfterWrite(files, name) == FALSE

\* is_new = not note_path.exists(), taken before the write (publisher.py:120).
is_new(files, name) == ~NoteExists(files, name)

\* Path.write_text: the file is created or overwritten.
write_text(files, name, content) ==
    { n \in files : n.name # name } \cup {[name |-> name, content |-> content]}

\* mark_published writing the path alone.
mark_published_PathOnly(tbl, id, path, hash) ==
    { IF r.id = id THEN [r EXCEPT !.note_path = path] ELSE r : r \in tbl }

\* AtlasDB.mark_published
mark_published(tbl, id, path, hash) ==
    LET Set(r) == [r EXCEPT !.note_path = path,
                            !.published_at = "now",
                            !.note_hash = hash]
    IN  { IF r.id = id THEN Set(r) ELSE r : r \in tbl }

\* The orders in which SELECT ... ORDER BY recorded_at ASC can return the rows
\* of S.  All recorded_at values are timestamps of one format, so their text
\* order is the order of the dates.
ByRecordedAt(S) ==
    { s \in [1..Cardinality(S) -> S] :
        /\ \A i \in 1..Len(s) : \A j \in 1..Len(s) :
              /\ i # j => s[i] # s[j]
              /\ i < j => ~(s[j].recorded_at = "2001-01-01T00:00:00Z"
                            /\ s[i].recorded_at = "2001-01-02T00:00:00Z") }

\* The selection of publish fetching every record whatever `force` says.
PublishCandidatesAll(tbl, force) == tbl

\* get_all_assets / get_unpublished_assets
PublishCandidates(tbl, force) ==
    IF force THEN tbl ELSE { r \in tbl : r.note_path = NULL }

\* The except branch of publish leaving the error out of the audit log.
PublishErrorUnlogged(db, id) == db

\* The except branch of publish (publisher.py:140-144): the audit event of the
\* error.
PublishError(db, id) == log_action(db, "publish", "error", id)

\* publish, lines 100-104: log the start, select the rows.
PublishStart ==
    /\ CanStart
    /\ \E force \in BOOLEAN :
         /\ Begin(Opts("publish", force, <<>>))
         /\ \E s \in ByRecordedAt(PublishCandidates(conn.asset, force)) : rows' = s
    /\ conn' = log_action(conn, "publish", "start", NULL)
    /\ pc' = "p_loop"
    /\ ret' = "none"
    /\ UNCHANGED <<store, tfiles, notes, nfaults>>
    /\ UNCHANGED aside

\* publish, lines 106-146: one iteration.  Nothing is committed here.  An
\* error raised while rendering or before the note is written, by write_text
\* after it wrote, or by write_jsonl after the record was marked published and
\* its event logged, is caught: it is counted and logged.
PublishRecord ==
    /\ pc = "p_loop"
    /\ idx <= Len(rows)
    /\ LET asset == rows[idx]
           content == generate_note_content(asset)
           hash == content_hash(content)
           name == note_filename(asset)
           relative == "MemoryAtlas/voice/" \o name
           action == IF is_new(notes, name) THEN "create" ELSE "update"
       IN  IF NoteExists(notes, name) /\ asset.note_hash = hash /\ ~opts.force
           THEN /\ counts' = Bump(counts, "skipped")
                /\ results' = Append(results, [id |-> asset.id, res |-> "skipped"])
                /\ UNCHANGED <<conn, notes, nfaults>>
           ELSE \/ /\ notes' = write_text(notes, name, content)
                   /\ conn' = log_action(
                         [conn EXCEPT !.asset = mark_published(@, asset.id, relative, hash)],
                         "publish", action, asset.id)
                   /\ counts' = Bump(counts, IF is_new(notes, name) THEN "created"
                                             ELSE "updated")
                   /\ results' = Append(results, [id |-> asset.id, res |-> action])
                   /\ UNCHANGED nfaults
                \/ /\ CanFault
                   /\ nfaults' = nfaults + 1
                   /\ \/ /\ UNCHANGED notes
                         /\ conn' = PublishError(conn, asset.id)
                      \/ /\ notes' = write_text(notes, name, content)
                         /\ conn' = PublishError(conn, asset.id)
                      \/ /\ notes' = write_text(notes, name, content)
                         /\ conn' = PublishError(
                               log_action(
                                 [conn EXCEPT !.asset =
                                    mark_published(@, asset.id, relative, hash)],
                                 "publish", action, asset.id),
                               asset.id)
                   /\ counts' = Bump(counts, "error")
                   /\ results' = Append(results, [id |-> asset.id, res |-> "error"])
    /\ idx' = idx + 1
    /\ UNCHANGED <<store, pc, opts, rows, ret, tfiles, runs>>
    /\ UNCHANGED aside

\* publish, line 148: the single commit after the loop.
PublishCommit ==
    /\ pc = "p_loop"
    /\ idx > Len(rows)
    /\ store' = conn
    /\ pc' = "p_complete"
    /\ UNCHANGED <<conn, opts, rows, idx, counts, results, ret,
                   tfiles, notes, runs, nfaults>>
    /\ UNCHANGED aside

\* publish, lines 149-152: log the completion, commit, return the counts.
PublishComplete ==
    /\ pc = "p_complete"
    /\ End("returned", log_action(conn, "publish", "complete", NULL))
    /\ UNCHANGED <<opts, rows, idx, counts, results, tfiles, notes, runs, nfaults>>
    /\ UNCHANGED aside

-----------------------------------------------------------------------------
(* The process dies (kill, power loss): the open transaction is lost, the   *)
(* committed store and the files on disk stay.                              *)

Crash ==
    /\ pc \notin {"idle", "exit"}
    /\ pc' = "exit"
    /\ ret' = "crashed"
    /\ conn' = store
    /\ UNCHANGED <<store, opts, rows, idx, counts, results,
                   tfiles, notes, runs, nfaults>>
    /\ UNCHANGED aside

\* The command's process ends; nothing of the batch outlives it but the store
\* and the files.
Exit ==
    /\ pc = "exit"
    /\ pc' = "idle"
    /\ opts' = Opts("none", FALSE, <<>>)
    /\ rows' = <<>>
    /\ idx' = 1
    /\ counts' = NoCounts
    /\ results' = <<>>
    /\ ret' = "none"
    /\ UNCHANGED <<store, conn, tfiles, notes, runs, nfaults>>
    /\ UNCHANGED aside

-----------------------------------------------------------------------------

EmptyDb == [asset |-> {}, log |-> <<>>]

\* No response text was handed to the parser.
NotParsed == [called |-> FALSE, none |-> TRUE, data |-> EmptyDict]

\* The timestamps of an empty asset table.
NoStamps == [id \in {} |-> [scanned_at |-> 0, updated_at |-> 0]]

\* After `atlas init`: the schema exists, both tables are empty.
InitDb ==
    /\ store = EmptyDb
    /\ conn = EmptyDb
    /\ pc = "idle"
    /\ opts = Opts("none", FALSE, <<>>)
    /\ rows = <<>>
    /\ idx = 1
    /\ counts = NoCounts
    /\ results = <<>>
    /\ ret = "none"
    /\ tfiles = [id \in Ids |-> "none"]
    /\ notes = {}
    /\ runs = 0
    /\ nfaults = 0

Init ==
    /\ InitDb
    /\ raw = <<>>
    /\ parsed = NotParsed
    /\ stamps = NoStamps
    /\ now = 0

Next ==
    \/ ScanStart
    \/ ScanRecord
    \/ ScanCommit
    \/ ScanComplete
    \/ TranscribeStart
    \/ TranscribeCheck
    \/ TranscribeSkip
    \/ TranscribeRunning
    \/ TranscribeCall
    \/ TranscribeDone
    \/ TranscribeLog
    \/ TranscribeExcept
    \/ TranscribeExceptLog
    \/ TranscribeReturn
    \/ EnrichStart
    \/ EnrichRecord
    \/ EnrichReturn
    \/ PublishStart
    \/ PublishRecord
    \/ PublishCommit
    \/ PublishComplete
    \/ Crash
    \/ Exit

Spec == Init /\ [][Next]_vars

\* The behaviours in which no process dies.
NextRun ==
    \/ ScanStart
    \/ ScanRecord
    \/ ScanCommit
    \/ ScanComplete
    \/ TranscribeStart
    \/ TranscribeCheck
    \/ TranscribeSkip
    \/ TranscribeRunning
    \/ TranscribeCall
    \/ TranscribeDone
    \/ TranscribeLog
    \/ TranscribeExcept
    \/ TranscribeExceptLog
    \/ TranscribeReturn
    \/ EnrichStart
    \/ EnrichRecord
    \/ EnrichReturn
    \/ PublishStart
    \/ PublishRecord
    \/ PublishCommit
    \/ PublishComplete
    \/ Exit

SpecRun == Init /\ [][NextRun]_vars

-----------------------------------------------------------------------------
(* parse_enrichment_response on its own: every response text of at most      *)
(* MaxText tokens is handed to it once.                                      *)

InitParse ==
    /\ InitDb
    /\ raw \in Texts
    /\ parsed = NotParsed
    /\ stamps = NoStamps
    /\ now = 0

\* data = parse_enrichment_response(response)   (enricher.py:137)
Parse ==
    /\ ~parsed.called
    /\ LET data == parse_enrichment_response(raw)
       IN  parsed' = [called |-> TRUE, none |-> data.none, data |-> data.data]
    /\ UNCHANGED <<store, conn, pc, opts, rows, idx, counts, results, ret,
                   tfiles, notes, runs, nfaults, raw, stamps, now>>

NextParse == Parse

SpecParse == InitParse /\ [][NextParse]_vars

-----------------------------------------------------------------------------
(* The row timestamps scanned_at and updated_at, statement by statement: the *)
(* INSERT and every UPDATE the program issues on the asset table, each on    *)
(* the rows the program issues it for, with the clock moving in between.     *)

\* The last second of the clock in SpecStamps.
MaxClock == 2

\* The column defaults of scanned_at and updated_at (db.py:50-51): the time of
\* the INSERT.
InsertStamps(st, id, t) ==
    [i \in DOMAIN st \cup {id} |->
        IF i = id THEN [scanned_at |-> t, updated_at |-> t] ELSE st[i]]

\* The table without its trigger.
trg_asset_updated_at_Dropped(st, id, t) == st

\* trg_asset_updated_at (db.py:59-65): after an UPDATE of the row `id`,
\* updated_at of that row is set to the time of the statement.
trg_asset_updated_at(st, id, t) ==
    [i \in DOMAIN st |->
        IF i = id THEN [st[i] EXCEPT !.updated_at = t] ELSE st[i]]

\* One second passes.
Tick ==
    /\ now < MaxClock
    /\ now' = now + 1
    /\ UNCHANGED <<store, conn, pc, opts, rows, idx, counts, results, ret,
                   tfiles, notes, runs, nfaults, raw, parsed, stamps>>

\* The source rows of SpecStamps: a recording, the same renamed, and another.
StampRows ==
    { ZRow("AAAA-1", "AAAA-1.m4a", 30, 0, "Morning thoughts", "d1"),
      ZRow("AAAA-1", "AAAA-1.m4a", 30, 0, "Call Bob!", "d1"),
      ZRow("BBBB-2", "BBBB-2.m4a", 600, 86400, "Morning thoughts", "d1") }

\* upsert_asset for one candidate of the source: the INSERT, the UPDATE, or
\* no statement at all.
StmtUpsert ==
    /\ \E z \in StampRows :
         /\ LET a == AssetOf(z)
                up == upsert_asset(conn.asset, a)
            IN  /\ conn' = [conn EXCEPT !.asset = up.asset]
                /\ stamps' = CASE up.result = "insert" -> InsertStamps(stamps, a.id, now)
                               [] up.result = "update" -> trg_asset_updated_at(stamps, a.id, now)
                               [] up.result = "skip" -> stamps
    /\ UNCHANGED <<store, pc, opts, rows, idx, counts, results, ret,
                   tfiles, notes, runs, nfaults, raw, parsed, now>>

\* The status UPDATEs of the transcriber (transcriber.py:92, 101, 172) on a row
\* its selection fetches, and the 'failed' one also on a row it has set done.
StmtSetStatus ==
    /\ \E r \in conn.asset : \E status \in {"skipped", "running", "failed"} :
         /\ \/ TranscribeEligible(r) /\ status \in {"skipped", "running"}
            \/ r.transcript_status \in {"running", "done"} /\ status = "failed"
         /\ conn' = [conn EXCEPT !.asset = SetStatus(@, r.id, status)]
         /\ stamps' = trg_asset_updated_at(stamps, r.id, now)
    /\ UNCHANGED <<store, pc, opts, rows, idx, counts, results, ret,
                   tfiles, notes, runs, nfaults, raw, parsed, now>>

\* The 'done' UPDATE of the transcriber (transcriber.py:141-149) on a running
\* row.
StmtSetDone ==
    /\ \E r \in conn.asset :
         /\ r.transcript_status = "running"
         /\ conn' = [conn EXCEPT !.asset = SetDone(@, r.id, "en")]
         /\ stamps' = trg_asset_updated_at(stamps, r.id, now)
    /\ UNCHANGED <<store, pc, opts, rows, idx, counts, results, ret,
                   tfiles, notes, runs, nfaults, raw, parsed, now>>

\* The UPDATE of enrich_asset (enricher.py:145-160) on a row its selection
\* fetches.
StmtSetEnriched ==
    /\ \E r \in conn.asset :
         /\ EnrichEligible(r)
         /\ conn' = [conn EXCEPT !.asset = SetEnriched(@, r.id, GoodData)]
         /\ stamps' = trg_asset_updated_at(stamps, r.id, now)
    /\ UNCHANGED <<store, pc, opts, rows, idx, counts, results, ret,
                   tfiles, notes, runs, nfaults, raw, parsed, now>>

\* The UPDATE of mark_published (db.py:172-177) on any row, as a forced publish
\* issues it.
StmtMarkPublished ==
    /\ \E r \in conn.asset :
         /\ conn' = [conn EXCEPT !.asset =
                        mark_published(@, r.id,
                                       "MemoryAtlas/voice/" \o note_filename(r),
                                       content_hash(generate_note_content(r)))]
         /\ stamps' = trg_asset_updated_at(stamps, r.id, now)
    /\ UNCHANGED <<store, pc, opts, rows, idx, counts, results, ret,
                   tfiles, notes, runs, nfaults, raw, parsed, now>>

NextStamps ==
    \/ Tick
    \/ StmtUpsert
    \/ StmtSetStatus
    \/ StmtSetDone
    \/ StmtSetEnriched
    \/ StmtMarkPublished

SpecStamps == Init /\ [][NextStamps]_vars

-----------------------------------------------------------------------------
(* The vault: scans of a source holding recordings whose ids share their     *)
(* first segment, and the publish runs on what they stored.                  *)

\* The source rows of SpecVault: three recordings of the same title, each on
\* either day, the third one renamed, and the first one after an edit that
\* gave it a new file and digest but left title, duration and date alone.
VaultRows ==
    { ZRow(id, id \o ".m4a", 30, date, "Morning thoughts", "d1") :
        id \in VaultIds, date \in ZDates }
    \cup { ZRow("AAAA-3", "AAAA-3.m4a", 30, 0, "Call Bob!", "d1"),
           ZRow("AAAA-1", "AAAA-1.qta", 30, 0, "Morning thoughts", "d2") }

\* ORDER BY ZDATE ASC (apple.py:38) over VaultRows.
VaultSnapshots ==
    { s \in UNION { [1..n -> VaultRows] : n \in 0..MaxSnapshot } :
        \A i \in 1..Len(s) : \A j \in 1..Len(s) :
            i < j => s[i].ZDATE <= s[j].ZDATE }

RECURSIVE ScanLoop(_, _, _)
\* The loop of scan (scanner.py:23-44) with nothing raising, from the
\* candidates `assets` on: every candidate is upserted and counted, and an
\* insert or update is logged.
ScanLoop(db, c, assets) ==
    IF assets = <<>> THEN [db |-> db, counts |-> c, results |-> <<>>]
    ELSE LET a == Head(assets)
             up == upsert_asset(db.asset, a)
             logged == IF up.result # "skip"
                       THEN log_action([db EXCEPT !.asset = up.asset],
                                       "scan", up.result, a.id)
                       ELSE db
             rest == ScanLoop(logged, Bump(c, up.result), Tail(assets))
         IN  [rest EXCEPT !.results =
                 <<[id |-> a.id, res |-> up.result]>> \o @]

\* scan (scanner.py:8-50) from its start event to its return, nothing raising.
VaultScan ==
    /\ CanStart
    /\ \E snap \in VaultSnapshots :
         LET assets == read_voice_memos(snap)
             scanned == ScanLoop(log_action(conn, "scan", "start", NULL),
                                 NoCounts, assets)
         IN  /\ rows' = assets
             /\ idx' = Len(assets) + 1
             /\ counts' = scanned.counts
             /\ results' = scanned.results
             /\ End("returned", log_action(scanned.db, "scan", "complete", NULL))
    /\ opts' = Opts("scan", FALSE, <<>>)
    /\ runs' = runs + 1
    /\ UNCHANGED <<tfiles, notes, nfaults>>
    /\ UNCHANGED aside

NextVault ==
    \/ VaultScan
    \/ PublishStart
    \/ PublishRecord
    \/ PublishCommit
    \/ PublishComplete
    \/ Exit

SpecVault == Init /\ [][NextVault]_vars

-----------------------------------------------------------------------------
(* Claims                                                                  *)

\* The stage columns of a row: everything upsert_asset's UPDATE must not touch.
StageFields(r) ==
    <<r.transcript_status, r.transcript_model, r.transcript_lang,
      r.transcript_at, r.transcript_path, r.summary, r.topics, r.people,
      r.sentiment, r.enriched_at, r.note_path, r.published_at, r.note_hash>>

\* The source-derived columns of a row or candidate.
SourceFields(r) ==
    <<r.source_path, r.filename, r.title, r.duration_sec, r.recorded_at,
      r.file_format, r.file_size_bytes, r.apple_audio_digest>>

SeqRange(s) == { s[i] : i \in DOMAIN s }

DistinctIds(assets) ==
    \A i \in DOMAIN assets : \A j \in DOMAIN assets :
        i # j => assets[i].id # assets[j].id

\* The states in which a scan can call upsert_asset: between two batches, where
\* the next scan starts from, and inside the scan loop.
UpsertCallable == pc \in {"idle", "s_loop"}

\* A scan has just returned: `rows` is the source it read, `results` what it did.
ScanReturned == pc = "exit" /\ ret = "returned" /\ opts.cmd = "scan"

\* C1, as claimed: for every candidate and every store state upsert_asset can
\* be called in, the first of two upsert_asset calls in a row inserts or
\* updates, the second skips, and the stored row is the same after both;
\* scanning the source a scan has just read a second time skips every record
\* and changes no row.
C1_AsClaimed ==
    /\ UpsertCallable => \A c \in Candidates :
         LET first == upsert_asset(conn.asset, c)
             second == upsert_asset(first.asset, c)
         IN  /\ first.result \in {"insert", "update"}
             /\ second.result = "skip"
             /\ RowsWithId(second.asset, c.id) = RowsWithId(first.asset, c.id)
    /\ ScanReturned =>
         LET again == ScanAll(store.asset, rows)
         IN  /\ \A i \in DOMAIN again.results : again.results[i] = "skip"
             /\ again.asset = store.asset

\* C1, amended: the first of two upsert_asset calls in a row skips exactly when
\* the stored row already has the candidate's title, duration and recorded_at,
\* and inserts or updates otherwise; the second call always skips and leaves the
\* table as the first call left it.  Scanning a second time the source a scan
\* has just read without error, its records having pairwise distinct ids, skips
\* every record and changes no row.
C1_UpsertTwice ==
    /\ UpsertCallable => \A c \in Candidates :
         LET first == upsert_asset(conn.asset, c)
             second == upsert_asset(first.asset, c)
             same == \E r \in conn.asset :
                        /\ r.id = c.id
                        /\ r.title = c.title
                        /\ r.duration_sec = c.duration_sec
                        /\ r.recorded_at = c.recorded_at
         IN  /\ first.result = (IF same THEN "skip"
                                ELSE IF RowsWithId(conn.asset, c.id) = {}
                                     THEN "insert" ELSE "update")
             /\ second.result = "skip"
             /\ second.asset = first.asset
             /\ RowsWithId(first.asset, c.id) # {}
    /\ (ScanReturned /\ DistinctIds(rows) /\ counts.error = 0) =>
         LET again == ScanAll(store.asset, rows)
         IN  /\ \A i \in DOMAIN again.results : again.results[i] = "skip"
             /\ again.asset = store.asset

\* C1 witness: a scan of at least one record returned having skipped every
\* record (the store already held what the source lists).
C1_Witness ==
    /\ ScanReturned
    /\ results # <<>>
    /\ \A i \in DOMAIN results : results[i].res = "skip"

\* C2: neither the committed asset table nor the table the running batch sees
\* ever holds two rows with the same id.
C2_UniqueIds ==
    \A db \in {store, conn} :
        \A r1 \in db.asset : \A r2 \in db.asset : r1.id = r2.id => r1 = r2

\* C2 witness: a scan whose snapshot listed one id twice has been committed.
C2_Witness ==
    /\ ScanReturned
    /\ Len(results) = 2
    /\ results[1].id = results[2].id
    /\ RowsWithId(store.asset, results[1].id) # {}

ClaimedTransitions ==
    { <<"pending", "running">>, <<"running", "done">>, <<"running", "failed">>,
      <<"failed", "running">>, <<"pending", "skipped">>, <<"running", "skipped">> }

\* C3, as claimed: every change of a record's committed transcript_status is one
\* of pending->running, running->done, running->failed, failed->running,
\* pending->skipped, running->skipped.
C3_AsClaimed ==
    [][ \A r \in store.asset : \A n \in store'.asset :
            (r.id = n.id /\ r.transcript_status # n.transcript_status)
                => <<r.transcript_status, n.transcript_status>> \in ClaimedTransitions
      ]_vars

\* C4, as claimed: a record left in running by a crash is selected again by the
\* next transcribe batch (run without a limit).
C4_AsClaimed ==
    (pc # "idle" /\ opts.cmd = "transcribe" /\ opts.limit = <<>>)
        => \A r \in store.asset :
              (r.transcript_status = "running" /\ r.duration_sec > MinDuration)
                  => \E i \in DOMAIN rows : rows[i].id = r.id

\* C5, as claimed: in every committed state a record that carries a status set
\* by the transcribe runner has the audit event of that transition.
C5_AsClaimed ==
    \A r \in store.asset :
        r.transcript_status # "pending"
            => Event("transcribe", r.transcript_status, r.id) \in SeqRange(store.log)

\* The records whose row differs between the open transaction and the committed
\* store.
Uncommitted == { id \in Ids : RowsWithId(conn.asset, id) # RowsWithId(store.asset, id) }

\* The records with a note on disk that the committed store does not reflect.
Unreflected ==
    { id \in Ids : \E n \in notes :
        /\ \E r \in conn.asset : r.id = id /\ note_filename(r) = n.name
        /\ \A r \in store.asset : r.id = id => r.note_hash # content_hash(n.content) }

\* C6, as claimed: a record's mutation is committed before the next record is
\* processed, so at no point is there more than one record whose mutation is
\* uncommitted or whose written note is not reflected in the committed store.
C6_AsClaimed ==
    /\ Cardinality(Uncommitted) <= 1
    /\ Cardinality(Unreflected) <= 1

\* C7: for every candidate and every store state upsert_asset can be called in,
\* when upsert_asset updates, the updated row has the candidate's
\* source-derived columns and the stage columns it had before, and every other
\* row is left as it was.
C7_UpdateFrame ==
    UpsertCallable => \A c \in Candidates :
        LET up == upsert_asset(conn.asset, c)
        IN  up.result = "update" =>
              /\ \A r \in conn.asset : r.id # c.id => r \in up.asset
              /\ \A r \in RowsWithId(conn.asset, c.id) :
                    \E n \in up.asset :
                        /\ n.id = c.id
                        /\ StageFields(n) = StageFields(r)
                        /\ SourceFields(n) = SourceFields(c)
              /\ Cardinality(up.asset) = Cardinality(conn.asset)

\* C7 witness: a scan has just updated a record that was transcribed before.
C7_Witness ==
    /\ pc = "s_loop" /\ idx > 1
    /\ results[idx - 1].res = "update"
    /\ \E r \in conn.asset :
          /\ r.id = results[idx - 1].id
          /\ r.transcript_status = "done"
          /\ r.transcript_path # NULL

\* C8, as claimed: a transcribe batch that did not crash returns normally, every
\* selected record was processed, and a record counted failed is failed.
C8_AsClaimed ==
    (pc = "exit" /\ opts.cmd = "transcribe" /\ ret # "crashed") =>
        /\ ret = "returned"
        /\ \A i \in DOMAIN rows : \E j \in DOMAIN results : results[j].id = rows[i].id
        /\ \A j \in DOMAIN results :
              results[j].res = "failed" =>
                 \A r \in RowsWithId(store.asset, results[j].id) :
                     r.transcript_status = "failed"

\* C9, as claimed: no error leaves enrich_batch: whatever the collaborator
\* answered (the store and the files working), a batch that did not crash
\* returns, with every selected record counted done or failed.
C9_AsClaimed ==
    (pc = "exit" /\ opts.cmd = "enrich" /\ ret # "crashed" /\ nfaults = 0) =>
        /\ ret = "returned"
        /\ counts.done + counts.failed = Len(rows)

\* C10, as claimed: a record a stage runner counted failed is stored as failed
\* and has a failed audit event of that runner.
C10_AsClaimed ==
    \A j \in DOMAIN results :
        (opts.cmd \in {"transcribe", "enrich"} /\ results[j].res = "failed") =>
            /\ \A r \in RowsWithId(store.asset, results[j].id) :
                  r.transcript_status = "failed"
            /\ Event(opts.cmd, "failed", results[j].id) \in SeqRange(store.log)

\* The records a publish run found published when it started: they have a
\* note_path now and the run's selection did not fetch them as never published.
PublishedBefore(r) ==
    /\ r.note_path # NULL
    /\ \A i \in DOMAIN rows : rows[i].id = r.id => rows[i].note_path # NULL

\* The note of r is on disk and the stored fingerprint is the fingerprint of
\* what publish would render now: nothing rendered was modified since.
Unmodified(r) ==
    /\ NoteExists(notes, note_filename(r))
    /\ r.note_hash = content_hash(generate_note_content(r))

\* A publish run without --force has returned.
PublishReturned ==
    pc = "exit" /\ ret = "returned" /\ opts.cmd = "publish" /\ ~opts.force

\* C11, as claimed: a publish run (without --force) over a record that was
\* published before and not modified since does not write its note again and
\* reports the record as skipped.
C11_AsClaimed ==
    PublishReturned =>
        \A r \in store.asset :
            (PublishedBefore(r) /\ Unmodified(r)) =>
                /\ \A j \in DOMAIN results :
                      results[j].id = r.id => results[j].res = "skipped"
                /\ \E j \in DOMAIN results :
                      results[j].id = r.id /\ results[j].res = "skipped"
                /\ counts.skipped >= 1

\* The published records whose note is out of date: a rendered field was
\* modified after the note was written, so the stored fingerprint is no longer
\* the fingerprint of what publish would render.
Stale(tbl) ==
    { r \in tbl : /\ r.note_path # NULL
                  /\ r.note_hash # content_hash(generate_note_content(r)) }

\* C12, as claimed: between two commands, every published record with a
\* modified rendered field is among the records the next publish run (without
\* --force) fetches, so that this run rewrites its note.
C12_AsClaimed ==
    pc = "idle" => Stale(store.asset) \subseteq PublishCandidates(store.asset, FALSE)

C14_MissingSkipped ==
    [][ (pc = "t_missing" /\ nfaults' = nfaults /\ ret' # "crashed") =>
            /\ \A r \in RowsWithId(store'.asset, rows[idx].id) :
                  r.transcript_status = "skipped"
            /\ RowsWithId(store'.asset, rows[idx].id) # {}
            /\ conn' = store'
            /\ tfiles' = tfiles
            /\ counts'.skipped = counts.skipped + 1
            /\ counts'.failed = counts.failed
            /\ pc' = "t_loop" /\ idx' = idx + 1 /\ rows' = rows
      ]_vars

\* C14 witness: a batch of two records skipped the first one for its missing
\* source file and then transcribed the second.
C14_Witness ==
    /\ opts.cmd = "transcribe"
    /\ Len(rows) = 2
    /\ Len(results) = 2
    /\ results[1].res = "skipped"
    /\ results[2].res = "done"
    /\ \E r \in store.asset : r.id = rows[1].id /\ r.transcript_status = "skipped"

\* C15: in every step of a transcribe run, its start and its interruption
\* included, no selected row was done when it was selected, every record that
\* is done and was not selected stays exactly as it is in the committed store,
\* and a transcript artifact is written only for a selected record.
C15_DoneStays ==
    [][ opts'.cmd = "transcribe" =>
            /\ \A i \in DOMAIN rows' : rows'[i].transcript_status # "done"
            /\ \A r \in store.asset :
                  (/\ r.transcript_status = "done"
                   /\ \A i \in DOMAIN rows' : rows'[i].id # r.id)
                      => r \in store'.asset
            /\ \A id \in Ids :
                  tfiles'[id] # tfiles[id] => \E i \in DOMAIN rows' : rows'[i].id = id
      ]_vars

\* C15 witness: the collaborator is being called for a record while another
\* record, transcribed by an earlier limited or interrupted run, is done.
C15_Witness ==
    /\ opts.cmd = "transcribe"
    /\ pc = "t_call"
    /\ \E r \in store.asset :
          /\ r.transcript_status = "done"
          /\ \A i \in DOMAIN rows : rows[i].id # r.id

\* The records the claim lets a transcribe run process: pending or failed, and
\* longer than the threshold.
C16_Due(tbl) ==
    { r \in tbl : /\ r.transcript_status \in {"pending", "failed"}
                  /\ r.duration_sec > 5 }

\* A transcribe run has just made its selection: nothing was processed yet.
TranscribeSelected ==
    /\ opts.cmd = "transcribe"
    /\ \/ pc = "t_loop" /\ idx = 1
       \/ pc = "exit" /\ ret = "returned" /\ rows = <<>>

\* The rows a transcribe run fetched are in ascending order of duration, no
\* record twice, and each of them pending or failed and above the threshold
\* when it was fetched.
C16_Ordered ==
    /\ \A i \in DOMAIN rows : \A j \in DOMAIN rows :
          /\ i < j => rows[i].duration_sec <= rows[j].duration_sec
          /\ i # j => rows[i].id # rows[j].id
    /\ \A i \in DOMAIN rows : rows[i] \in C16_Due({rows[i]})

\* The loop takes the fetched rows one by one in their order: the records
\* processed so far are the first idx-1 rows, or the first idx rows when the
\* row at idx is being worked on.
C16_InOrder ==
    /\ idx \in 1..(Len(rows) + 1)
    /\ \A j \in DOMAIN results : \E i \in 1..idx :
          i <= Len(rows) /\ rows[i].id = results[j].id
    /\ pc \in {"t_missing", "t_present", "t_call", "t_written", "t_log",
               "t_except", "t_exlog"} => idx <= Len(rows)

C17_UpsertResult ==
    UpsertCallable => \A c \in Candidates :
        LET up == upsert_asset(conn.asset, c)
            old == RowsWithId(conn.asset, c.id)
            equal == \E r \in old : /\ r.title = c.title
                                    /\ r.duration_sec = c.duration_sec
                                    /\ r.recorded_at = c.recorded_at
        IN  /\ up.result \in {"insert", "skip", "update"}
            /\ up.result = "insert" <=> old = {}
            /\ up.result = "skip" <=> equal
            /\ up.result = "update" <=> (old # {} /\ ~equal)
            /\ up.result = "skip" => up.asset = conn.asset
            /\ up.result = "insert" =>
                  /\ conn.asset \subseteq up.asset
                  /\ \A n \in up.asset \ conn.asset :
                        /\ n.id = c.id
                        /\ SourceFields(n) = SourceFields(c)
                        /\ StageFields(n) =
                              <<"pending", NULL, NULL, NULL, NULL, NULL, NULL,
                                NULL, NULL, NULL, NULL, NULL, NULL>>
                  /\ Cardinality(up.asset) = Cardinality(conn.asset) + 1

\* C17 witness: a scan over two stored records, one of them transcribed, has
\* updated the one whose title changed and skipped the other.
C17_Witness ==
    /\ ScanReturned
    /\ counts.update = 1 /\ counts.skip = 1 /\ counts.insert = 0
    /\ \E r \in store.asset : r.transcript_status # "pending"

C19_ScanSourceError ==
    [][ (pc = "idle" /\ opts'.cmd = "scan" /\ nfaults' # nfaults) =>
            /\ pc' = "exit"
            /\ ret' = "raised"
            /\ store' = store
            /\ conn' = store
            /\ results' = <<>>
      ]_vars

\* C19 witness: a scan has failed on its source while the store held a record
\* and audit events of an earlier scan.
C19_Witness ==
    /\ pc = "exit" /\ ret = "raised" /\ opts.cmd = "scan"
    /\ store.asset # {}
    /\ store.log # <<>>

\* The enrichment columns of a row.
EnrichFields(r) == <<r.summary, r.topics, r.people, r.sentiment, r.enriched_at>>

\* C20, as claimed: in the committed store every record has either none of its
\* enrichment columns set, or enriched_at set together with a summary.
C20_AsClaimed ==
    \A r \in store.asset :
        \/ EnrichFields(r) = <<NULL, NULL, NULL, NULL, NULL>>
        \/ r.enriched_at # NULL /\ r.summary # NULL


\* C21: a publish run fetches every record of the store, each once, when it is
\* forced, and exactly the records with a null note_path when it is not; in a
\* run that is not forced every fetched row has a null note_path, and no step
\* of the run changes the row of a record it did not fetch, in its transaction
\* or in the committed store, or writes or removes a note other than the notes
\* of the fetched rows.
C21_CandidateSet ==
    [][ /\ (pc = "idle" /\ opts'.cmd = "publish") =>
              /\ SeqRange(rows') =
                    IF opts'.force THEN store.asset
                    ELSE { r \in store.asset : r.note_path = NULL }
              /\ Len(rows') = Cardinality(SeqRange(rows'))
        /\ (pc # "idle" /\ opts.cmd = "publish" /\ ~opts.force) =>
              /\ \A i \in DOMAIN rows : rows[i].note_path = NULL
              /\ \A r \in conn.asset :
                    (\A i \in DOMAIN rows : rows[i].id # r.id) =>
                        /\ r.note_path # NULL
                        /\ r \in conn'.asset
                        /\ r \in store.asset /\ r \in store'.asset
              /\ \A n \in (notes' \ notes) \cup (notes \ notes') :
                    \E i \in DOMAIN rows : n.name = note_filename(rows[i])
      ]_vars

\* C21 witness: a publish run without --force is at work on a never-published
\* record while the store holds a published record the run did not fetch.
C21_Witness ==
    /\ opts.cmd = "publish" /\ ~opts.force
    /\ pc = "p_loop" /\ idx = 2
    /\ results[1].res = "create"
    /\ \E r \in store.asset :
          /\ r.note_path # NULL
          /\ \A i \in DOMAIN rows : rows[i].id # r.id


PublishFields(r) == <<r.note_path, r.published_at, r.note_hash>>

\* Every row of the table `new` has the publication columns its record has in
\* the table `old`.
KeepsPublishFields(old, new) ==
    \A n \in new : \E o \in old : o.id = n.id /\ PublishFields(o) = PublishFields(n)

\* C23: in every step of a scan, a transcribe run or an enrich run, every
\* record keeps its note_path, published_at and note_hash, in the committed
\* store and in the run's transaction, and a record the step inserts has all
\* three null.  In every step of every command, no record leaves the committed
\* store and no committed note_path goes back to null; and a step that sets the
\* publication columns of a record is a step of publish on that record, taken
\* with the note written on disk under the path it stores.  So a committed
\* note_path is null exactly for the records no publish run has marked and
\* committed.  And on every table a command can start from, the UPDATE of
\* upsert_asset, the status UPDATEs and the done UPDATE of the transcriber and
\* the UPDATE of enrich_asset, issued for any of its records, leave the
\* publication columns of every row as they are.
C23_OnlyPublisher ==
    [][ /\ pc' = "idle" => \A r \in conn'.asset :
              /\ \A a \in { AssetOf(z) : z \in { y \in ZRows : y.ZPATH # "" } } :
                    a.id = r.id => PublishFields(UpsertSet(r, a)) = PublishFields(r)
              /\ \A status \in {"skipped", "running", "failed"} :
                    KeepsPublishFields(conn'.asset, SetStatus(conn'.asset, r.id, status))
              /\ KeepsPublishFields(conn'.asset, SetDone(conn'.asset, r.id, "en"))
              /\ \A m \in {"M4", "Mnull"} :
                    KeepsPublishFields(conn'.asset,
                                       SetEnriched(conn'.asset, r.id, Members(m)))
        /\ opts'.cmd \in {"scan", "transcribe", "enrich"} =>
              /\ \A r \in store.asset : \A n \in store'.asset :
                    n.id = r.id => PublishFields(n) = PublishFields(r)
              /\ \A r \in conn.asset : \A n \in conn'.asset :
                    n.id = r.id => PublishFields(n) = PublishFields(r)
              /\ \A n \in conn'.asset :
                    RowsWithId(conn.asset, n.id) = {} =>
                        PublishFields(n) = <<NULL, NULL, NULL>>
              /\ \A n \in store'.asset :
                    RowsWithId(store.asset, n.id) = {} =>
                        PublishFields(n) = <<NULL, NULL, NULL>>
        /\ \A r \in store.asset : \E n \in store'.asset :
              /\ n.id = r.id
              /\ r.note_path # NULL => n.note_path # NULL
        /\ \A r \in conn.asset : \A n \in conn'.asset :
              (n.id = r.id /\ PublishFields(n) # PublishFields(r)
                           /\ n.note_path # NULL /\ ret' # "crashed") =>
                  /\ opts.cmd = "publish" /\ pc = "p_loop"
                  /\ rows[idx].id = r.id
                  /\ n.note_path = "MemoryAtlas/voice/" \o note_filename(rows[idx])
                  /\ n.note_hash = content_hash(generate_note_content(rows[idx]))
                  /\ n.published_at # NULL
                  /\ NoteExists(notes', note_filename(rows[idx]))
      ]_vars

\* C23 witness: a transcribe run has just committed done for a record that was
\* published before.
C23_Witness ==
    /\ opts.cmd = "transcribe" /\ pc = "t_log"
    /\ \E r \in store.asset :
          /\ r.id = rows[idx].id
          /\ r.transcript_status = "done"
          /\ r.note_path # NULL /\ r.note_hash # NULL


\* C24: in every step of every command, a crash included, the committed audit
\* log after the step has the committed audit log before it as a prefix, and
\* the log the running command sees has the committed log as a prefix: events
\* are added at the end, none is changed or removed.
C24_AppendOnly ==
    [][ /\ Len(store'.log) >= Len(store.log)
        /\ SubSeq(store'.log, 1, Len(store.log)) = store.log
        /\ Len(conn'.log) >= Len(store'.log)
        /\ SubSeq(conn'.log, 1, Len(store'.log)) = store'.log
      ]_vars

\* C24 witness: a scan, a transcribe run and a publish run have each committed
\* events, and the events of the scan are still the first of the log.
C24_Witness ==
    /\ pc = "idle"
    /\ Len(store.log) >= 5
    /\ store.log[1] = Event("scan", "start", NULL)
    /\ \E i \in DOMAIN store.log : store.log[i].command = "transcribe"
    /\ \E i \in DOMAIN store.log : store.log[i].command = "publish"


\* C25, as claimed: a transcribe or enrich batch run with --limit n, n >= 0,
\* fetches and processes at most n records.
C25_AsClaimed ==
    (opts.cmd \in {"transcribe", "enrich"} /\ opts.limit # <<>>) =>
        /\ Len(rows) <= opts.limit[1]
        /\ Len(results) <= opts.limit[1]


\* C26: with a clock that does not go back: in every step, a row that is
\* inserted gets scanned_at and updated_at of the time of its INSERT; a row
\* that exists keeps its scanned_at whatever statement is issued (the UPDATE of
\* upsert_asset, the status and done UPDATEs of the transcriber, the UPDATE of
\* enrich_asset, the UPDATE of mark_published); its updated_at never decreases
\* and never runs ahead of the clock; and whenever a column of the row changes,
\* its updated_at is the time of the change afterwards.
C26_Stamps ==
    [][ /\ DOMAIN stamps' = { r.id : r \in conn'.asset }
        /\ \A id \in DOMAIN stamps :
              /\ id \in DOMAIN stamps'
              /\ stamps'[id].scanned_at = stamps[id].scanned_at
              /\ stamps'[id].updated_at >= stamps[id].updated_at
              /\ stamps'[id].scanned_at <= stamps'[id].updated_at
              /\ stamps'[id].updated_at <= now'
              /\ RowsWithId(conn'.asset, id) # RowsWithId(conn.asset, id) =>
                    stamps'[id].updated_at = now'
        /\ \A id \in DOMAIN stamps' \ DOMAIN stamps :
              stamps'[id] = [scanned_at |-> now', updated_at |-> now']
      ]_vars

\* C26 witness: a record inserted at second 0 was renamed by a later scan,
\* transcribed and published, the last of it at second 2: its scanned_at is
\* still 0, its updated_at is 2.
C26_Witness ==
    \E r \in conn.asset :
        /\ r.title = "Call Bob!"
        /\ r.transcript_status = "done"
        /\ r.note_path # NULL
        /\ r.id \in DOMAIN stamps
        /\ stamps[r.id] = [scanned_at |-> 0, updated_at |-> 2]


\* The member lists that hold all four required keys.
C27_Complete == {"M4", "Mnull", "Mlist"}

\* The positions of a character in the response text handed to the parser.
C27_Positions(ch) == { i \in DOMAIN raw : raw[i] = ch }

\* C27, as claimed: a structure with all four required fields is accepted
\* whatever text surrounds it, and every other response is rejected with no
\* partial result.
C27_AsClaimed ==
    parsed.called =>
        /\ (\E i \in DOMAIN raw : \E m \in C27_Complete :
                i + 2 <= Len(raw) /\ SubSeq(raw, i, i + 2) = <<"{", m, "}">>)
              => ~parsed.none
        /\ parsed.none => DOMAIN parsed.data = {}

\* C27, amended: the parser looks at the text from the first "{" to the last
\* "}" and nowhere else.  It accepts the response exactly when both braces are
\* there, the last "}" comes after the first "{", and the text between them,
\* braces included, is one JSON object that has all four required keys at its
\* top level; it then returns exactly that object, whatever the values of the
\* keys.  So a complete structure is accepted when the text before it holds no
\* "{" and the text after it holds no "}", and rejected when the surrounding
\* text holds such a brace.  Every other response (a brace missing, the braces
\* out of order, text that is not JSON, an object with a required key missing,
\* the keys only inside a nested object) gives None, with nothing of the
\* response in the result.
C27_Parse ==
    parsed.called =>
        LET open == C27_Positions("{")
            close == C27_Positions("}")
            first == CHOOSE i \in open : \A j \in open : i <= j
            last == CHOOSE i \in close : \A j \in close : i >= j
            accepted == /\ open # {} /\ close # {}
                        /\ last = first + 2
                        /\ raw[first + 1] \in C27_Complete
        IN  /\ parsed.none <=> ~accepted
            /\ accepted => parsed.data = Members(raw[first + 1])
            /\ ~parsed.none => RequiredKeys \subseteq DOMAIN parsed.data
            /\ parsed.none => DOMAIN parsed.data = {}
            /\ \A m \in C27_Complete : \A i \in DOMAIN raw :
                  (/\ i + 2 <= Len(raw)
                   /\ SubSeq(raw, i, i + 2) = <<"{", m, "}">>
                   /\ \A j \in 1..(i - 1) : raw[j] # "{"
                   /\ \A j \in (i + 3)..Len(raw) : raw[j] # "}")
                      => ~parsed.none /\ parsed.data = Members(m)

\* C27 witness: a complete object with prose before and after it was parsed
\* and accepted.
C27_Witness ==
    /\ parsed.called
    /\ raw = <<"x", "{", "M4", "}", "x">>
    /\ ~parsed.none
    /\ parsed.data = GoodData


\* C28: in the committed store and in the running batch's view alike, a record
\* with transcript_status done has a transcript_path, a transcript_model, a
\* transcript_lang and a transcript_at.
C28_DoneHasPayload ==
    \A db \in {store, conn} : \A r \in db.asset :
        r.transcript_status = "done" =>
            /\ r.transcript_path # NULL
            /\ r.transcript_model # NULL
            /\ r.transcript_lang # NULL
            /\ r.transcript_at # NULL

\* C28 witness: a transcribe run over two records has returned with both of
\* them done.
C28_Witness ==
    /\ pc = "exit" /\ ret = "returned" /\ opts.cmd = "transcribe"
    /\ counts.done = 2
    /\ \A r \in store.asset : r.transcript_status = "done"
    /\ Cardinality(store.asset) = 2


\* C29, as claimed: a record an enrich run has reported done is no longer
\* eligible for enrichment: the selection of a later enrich run does not fetch
\* it.
C29_AsClaimed ==
    \A j \in DOMAIN results :
        (opts.cmd = "enrich" /\ results[j].res = "done") =>
            \A r \in RowsWithId(store.asset, results[j].id) : ~EnrichEligible(r)


\* The ids of the records the enrich selection draws from a table.
C30_Pool(tbl) ==
    { r.id : r \in { x \in tbl : /\ x.transcript_status = "done"
                                 /\ x.summary = NULL
                                 /\ x.transcript_path # NULL } }

C31_AsClaimed ==
    (pc = "exit" /\ ret = "returned") =>
        /\ opts.cmd = "transcribe" =>
              /\ counts.done + counts.failed + counts.skipped = Len(rows)
              /\ Len(results) = Len(rows)
              /\ \A i \in DOMAIN results : results[i].id = rows[i].id
        /\ opts.cmd = "publish" =>
              /\ counts.created + counts.updated + counts.skipped + counts.error
                    = Len(rows)
              /\ Len(results) = Len(rows)
              /\ \A i \in DOMAIN results : results[i].id = rows[i].id


\* C32, as claimed: two stored records with different ids never hold the same
\* note path, so the note one of them published is never the file the other
\* one published to.
C32_AsClaimed ==
    \A r \in store.asset : \A s \in store.asset :
        (r.id # s.id /\ r.note_path # NULL /\ s.note_path # NULL)
            => r.note_path # s.note_path


\* C33: in every committed state, and in every state of the open transaction,
\* note_path, published_at and note_hash of a record are all null or all
\* non-null.
C33_PublishedTogether ==
    \A r \in store.asset \cup conn.asset :
        \/ r.note_path = NULL /\ r.published_at = NULL /\ r.note_hash = NULL
        \/ r.note_path # NULL /\ r.published_at # NULL /\ r.note_hash # NULL

\* A committed store holding a published record next to an unpublished one.
C33_Witness ==
    /\ \E r \in store.asset :
          r.note_path # NULL /\ r.published_at # NULL /\ r.note_hash # NULL
    /\ \E r \in store.asset :
          r.note_path = NULL /\ r.published_at = NULL /\ r.note_hash = NULL


\* C34: skipped is terminal.  A record whose transcript_status is 'skipped',
\* in the committed store or in the connection's view, has that status after
\* every step of scan, transcribe, enrich and publish, also when the process
\* dies and also when a later transcribe run finds its source file present.
C34_SkippedTerminal ==
    [][ /\ \A r \in store.asset :
              r.transcript_status = "skipped" =>
                  \E s \in store'.asset :
                      s.id = r.id /\ s.transcript_status = "skipped"
        /\ \A r \in conn.asset :
              r.transcript_status = "skipped" =>
                  \E s \in conn'.asset :
                      s.id = r.id /\ s.transcript_status = "skipped"
      ]_vars

\* A transcribe run has returned after processing a record whose file was
\* there, while another record, skipped by an earlier run, is still skipped.
C34_Witness ==
    /\ pc = "exit"
    /\ ret = "returned"
    /\ opts.cmd = "transcribe"
    /\ \E i \in DOMAIN results : results[i].res = "done"
    /\ \E r \in store.asset :
          /\ r.transcript_status = "skipped"
          /\ r.duration_sec > MinDuration
          /\ \A i \in DOMAIN results : results[i].id # r.id


\* C35: a scan that returns skips every candidate whose title, duration and
\* recorded_at equal those of the stored row with its id, whatever the
\* candidate's source_path, filename, file_format, file_size_bytes and digest
\* are: the stored row is left as it was, those five columns included, and the
\* audit log gains no event for the record.  (Stated for the candidates that
\* are the only one of their id in the scan.)
C35_SkipFrame ==
    [][ (pc = "idle" /\ pc' = "exit" /\ opts'.cmd = "scan" /\ ret' = "returned") =>
          \A i \in DOMAIN rows' :
              LET c == rows'[i]
              IN  \A r \in RowsWithId(conn.asset, c.id) :
                    ( /\ \A j \in DOMAIN rows' : j # i => rows'[j].id # c.id
                      /\ r.title = c.title
                      /\ r.duration_sec = c.duration_sec
                      /\ r.recorded_at = c.recorded_at )
                    => /\ results'[i] = [id |-> c.id, res |-> "skip"]
                       /\ r \in store'.asset
                       /\ RowsWithId(store'.asset, c.id) = {r}
                       /\ \A k \in (Len(conn.log) + 1)..Len(store'.log) :
                             store'.log[k].asset_id # c.id
      ]_vars

\* A scan has returned after skipping a candidate whose file name, format and
\* digest differ from the stored row's, which still has the old ones.
C35_Witness ==
    /\ ScanReturned
    /\ \E i \in DOMAIN rows : \E r \in store.asset :
          /\ r.id = rows[i].id
          /\ \A j \in DOMAIN rows : j # i => rows[j].id # r.id
          /\ results[i].res = "skip"
          /\ rows[i].source_path # r.source_path
          /\ rows[i].filename # r.filename
          /\ rows[i].file_format # r.file_format
          /\ rows[i].apple_audio_digest # r.apple_audio_digest

====
